---- MODULE Spec2Model ----
(***************************************************************************)
(* Model of the project-clustering feature of QuickAI:                     *)
(*   - kmeans / initializeCentroids / squaredDistance  (utils/kmeans)      *)
(*   - Dashboard.handleClusterProjects and its cluster button             *)
(*   - embedContentBatch / generateClusterName         (geminiService)     *)
(*                                                                         *)
(* Cluster indices and random indices are 0-based as in the source;        *)
(* sequences are 1-based, so element i of an array is seq[i + 1].          *)
(* A centroid is kept as an exact fraction [s |-> sums, c |-> count]       *)
(* standing for the vector s / c; a data row used as a centroid has c = 1. *)
(* Its field nan counts the NaN components that follow the numbers.        *)
(* Distances are compared exactly; for the integer inputs used here the    *)
(* double arithmetic of the source orders them the same way.               *)
(***************************************************************************)
EXTENDS Integers, Sequences, FiniteSets, TLC

\* ---------------------------------------------------------------- bounds
MaxN == 3                   \* longest vector list drawn from Points
MaxK == 3                   \* largest k handed to kmeans directly
MaxIterBound == 2           \* largest explicit maxIterations argument
MaxProjects == 3            \* longest project list of the Dashboard
MaxRuns == 2                \* handler invocations followed per behaviour
MaxAnyN == 2                \* longest vector list with rows of any length
MaxHistory == 3             \* entries of past and future taken together
MaxChat == 4                \* longest chatHistory followed
MaxAssets == 2              \* most assets of the project shown in the Chat
MaxPrompt == 2              \* longest text typed into the Chat textarea

\* ------------------------------------------------------ program constants
DefaultMaxIterations == 50  \* kmeans(data, k, maxIterations = 50)
MinK == -1                  \* k is a plain number: a negative one can be passed
MaxClusters == 3            \* Math.min(projectsWithPrompts.length, 3)

NeedTwoProjectsMsg == "You need at least two projects to create clusters."
EmbedFailedMsg == "Failed to generate embeddings."
NameFailedMsg == "Failed to generate a name for the cluster."
\* err.message of the errors kmeans can throw (the wording of V8)
ReadingLengthMsg == "Cannot read properties of undefined (reading 'length')"
ReadingZeroMsg == "Cannot read properties of undefined (reading '0')"
InvalidLengthMsg == "Invalid array length"
NoError == "null"

\* Embedding vectors used as inputs (integer valued, one dimensionality).
Points == { <<0, 0>>, <<1, 0>>, <<10, 10>> }

\* The optional value of React state `clusters`: null or a list.
Null == << >>
Some(list) == << list >>

VARIABLES
    \* ---- kmeans(data, k, maxIterations): parameters and locals
    data,           \* the defined rows of `data`
    dataLength,     \* data.length (rows past Len(data) are undefined)
    k,
    maxIterations,
    centroids,
    usedIndices,
    assignments,
    changed,
    iter,
    km_pc,          \* "idle" | "call" | "init" | "assign" | "update" | "done" | "threw"
    \* ---- App: whether renderPage() currently renders the Dashboard
    mounted,
    \* ---- Dashboard props and React state
    projects,
    clusters,
    isClustering,
    clusteringError,
    \* ---- locals of the handleClusterProjects invocation in flight
    run_pc,         \* "idle" | "awaitEmbed" | "engine" | "awaitName"
    promptsToEmbed, \* ids of projectsWithPrompts, in order
    numClusters,
    bucketI,        \* loop variable i
    newClusters,
    \* ---- observation of the run (not read by the program)
    inFlight,       \* invocations between setIsClustering(true) and finally
    orphans,        \* of these, the ones started by an unmounted Dashboard
    invocations,    \* handler invocations so far
    calls,          \* collaborator / engine calls of the current invocation
    returned,       \* embeddings.length of the current invocation, -1 before
    failed,         \* which call of the current invocation threw
    \* ---- useHistoryState: React state and what the last render captured
    history,        \* [past, present, future]
    canUndo,        \* history.past.length > 0 as of the last render
    canRedo,        \* history.future.length > 0 as of the last render
    lastCall,       \* observation: the hook function called last
    \* ---- Chat: prop, React state and the handleSend invocation in flight
    apiKey,         \* process.env.API_KEY is set
    project,        \* the `project` prop: Null, or Some of the object's
                    \* number of assets and lastActivePage
    prompt,         \* the textarea's text, a sequence of characters
    chatHistory,    \* the messages [role, text], in order
    isLoading,
    error,
    chat_pc,        \* "idle" | "awaitReply"
    effectPending,  \* the reset effect's updates are queued, not rendered
    lastEvent       \* observation: the Chat step taken last

kmVars == << data, dataLength, k, maxIterations, centroids, usedIndices,
             assignments, changed, iter, km_pc >>
uiVars == << clusters, isClustering, clusteringError >>
runVars == << run_pc, promptsToEmbed, numClusters, bucketI, newClusters >>
obsVars == << inFlight, orphans, invocations, calls, returned, failed >>
hookVars == << history, canUndo, canRedo, lastCall >>
chatVars == << apiKey, project, prompt, chatHistory, isLoading, error,
              chat_pc, effectPending, lastEvent >>
otherVars == << hookVars, chatVars >>
vars == << kmVars, mounted, projects, uiVars, runVars, obsVars, otherVars >>

Min(a, b) == IF a < b THEN a ELSE b

\* ------------------------------------------------------------------ kmeans

\* Numerator of squaredDistance(a, s / c): sum_d (c * a[d] - s[d])^2,
\* so that squaredDistance = SquaredDistanceNum / c^2.
RECURSIVE SquaredDistanceNum(_, _, _)
SquaredDistanceNum(a, b, i) ==
    IF i > Len(a) THEN 0
    ELSE (b.c * a[i] - b.s[i]) * (b.c * a[i] - b.s[i])
         + SquaredDistanceNum(a, b, i + 1)

\* squaredDistance(a, b) is NaN: some b[i] with i < a.length is undefined
\* (b is shorter than a) or NaN (b.s keeps the components that are numbers).
DistanceNaN(a, b) == Len(a) > Len(b.s)

\* squaredDistance(a, b1) < squaredDistance(a, b2); false if either is NaN.
DistanceLess(a, b1, b2) ==
    /\ ~DistanceNaN(a, b1)
    /\ ~DistanceNaN(a, b2)
    /\ SquaredDistanceNum(a, b1, 1) * b2.c * b2.c
          < SquaredDistanceNum(a, b2, 1) * b1.c * b1.c

\* Inner loop of the assignment step: scan j = 0 .. centroids.length - 1,
\* keep the first index whose distance is strictly below minDistance.
\* best = -1 stands for minDistance = Infinity, which every distance that
\* is a number is below; with no such distance the index stays 0.
RECURSIVE ClosestCentroidLastTie(_, _, _, _)
ClosestCentroidLastTie(a, cs, j, best) ==
    IF j >= Len(cs) THEN (IF best = -1 THEN 0 ELSE best)
    ELSE IF (IF best = -1 THEN ~DistanceNaN(a, cs[j + 1])
             ELSE ~DistanceLess(a, cs[best + 1], cs[j + 1]))
         THEN ClosestCentroidLastTie(a, cs, j + 1, j)
         ELSE ClosestCentroidLastTie(a, cs, j + 1, best)
RECURSIVE ClosestCentroid(_, _, _, _)
ClosestCentroid(a, cs, j, best) ==
    IF j >= Len(cs) THEN (IF best = -1 THEN 0 ELSE best)
    ELSE IF (IF best = -1 THEN ~DistanceNaN(a, cs[j + 1])
             ELSE DistanceLess(a, cs[j + 1], cs[best + 1]))
         THEN ClosestCentroid(a, cs, j + 1, j)
         ELSE ClosestCentroid(a, cs, j + 1, best)

\* data[index] as a centroid; a row that is undefined gives count 0.
UndefinedCentroid == [s |-> << >>, c |-> 0, nan |-> 0]
RowAsCentroid(index) ==
    IF index + 1 <= Len(data)
    THEN [s |-> data[index + 1], c |-> 1, nan |-> 0]
    ELSE UndefinedCentroid

\* new Array(data.length).fill(0)
ZeroAssignmentsPerCluster(n) == [i \in 1..k |-> 0]
ZeroAssignments(n) == [i \in 1..n |-> 0]

\* The for-loop condition  iter < maxIterations && changed
LoopContinuesInclusive(it, ch) == it <= maxIterations /\ ch
LoopContinues(it, ch) == it < maxIterations /\ ch

\* The while condition of initializeCentroids:
\* centroids.length < k && centroids.length < data.length
InitLoopConditionNoK(len) == len < dataLength
InitLoopCondition(len) == len < k /\ len < dataLength

\* Entry of kmeans: the early return on empty data or k === 0.
EarlyReturnNonPositive == dataLength = 0 \/ k <= 0
EarlyReturn == dataLength = 0 \/ k = 0

KmEnter ==
    /\ km_pc = "call"
    /\ IF EarlyReturn
       THEN /\ assignments' = << >>
            /\ centroids' = << >>
            /\ km_pc' = "done"
            /\ UNCHANGED << usedIndices, changed, iter >>
       ELSE /\ centroids' = << >>
            /\ usedIndices' = {}
            /\ IF InitLoopCondition(0)
               THEN /\ km_pc' = "init"
                    /\ UNCHANGED << assignments, changed, iter >>
               ELSE \* k < 0: initializeCentroids returns [] at once
                    /\ assignments' = ZeroAssignments(dataLength)
                    /\ changed' = TRUE
                    /\ iter' = 0
                    /\ km_pc' = IF LoopContinues(0, TRUE)
                                 THEN "assign" ELSE "done"
    /\ UNCHANGED << data, dataLength, k, maxIterations >>

\* One pass of the while loop of initializeCentroids with random index
\* `index`; when the loop condition turns false kmeans goes on to set up
\* assignments, changed and the for loop.
KmInitDrawWithReplacement(index) ==
    /\ km_pc = "init"
    /\ InitLoopCondition(Len(centroids))
    /\ centroids' = Append(centroids, RowAsCentroid(index))
    /\ usedIndices' = usedIndices \cup {index}
    /\ IF InitLoopCondition(Len(centroids'))
       THEN UNCHANGED << assignments, changed, iter, km_pc >>
       ELSE /\ assignments' = ZeroAssignments(dataLength)
            /\ changed' = TRUE
            /\ iter' = 0
            /\ km_pc' = IF LoopContinues(0, TRUE) THEN "assign" ELSE "done"
    /\ UNCHANGED << data, dataLength, k, maxIterations >>
KmInitDraw(index) ==
    /\ km_pc = "init"
    /\ InitLoopCondition(Len(centroids))
    /\ IF index \notin usedIndices
       THEN /\ centroids' = Append(centroids, RowAsCentroid(index))
            /\ usedIndices' = usedIndices \cup {index}
       ELSE UNCHANGED << centroids, usedIndices >>
    /\ IF InitLoopCondition(Len(centroids'))
       THEN UNCHANGED << assignments, changed, iter, km_pc >>
       ELSE /\ assignments' = ZeroAssignments(dataLength)
            /\ changed' = TRUE
            /\ iter' = 0
            /\ km_pc' = IF LoopContinues(0, TRUE) THEN "assign" ELSE "done"
    /\ UNCHANGED << data, dataLength, k, maxIterations >>

\* Step 2 of an iteration: assign each point to the nearest centroid.
\* squaredDistance dereferences its arguments, so an undefined row throws.
KmAssign ==
    /\ km_pc = "assign"
    /\ IF Len(data) < dataLength /\ Len(centroids) > 0
       THEN /\ km_pc' = "threw"
            /\ UNCHANGED << assignments, changed >>
       ELSE /\ assignments' =
                 [i \in 1..dataLength |->
                     ClosestCentroid(data[i], centroids, 0, -1)]
            /\ changed' = (assignments' # assignments)
            /\ km_pc' = "update"
    /\ UNCHANGED << data, dataLength, k, maxIterations, centroids,
                    usedIndices, iter >>

\* Componentwise sum of the rows assigned to cluster ci, over data[0].length
\* components; a row shorter than data[0] adds nothing past its end.
RECURSIVE SumRows(_, _, _)
SumRows(asg, ci, i) ==
    IF i > Len(asg) THEN [d \in 1..Len(data[1]) |-> 0]
    ELSE LET rest == SumRows(asg, ci, i + 1)
         IN  IF asg[i] = ci
             THEN [d \in 1..Len(data[1]) |->
                      rest[d] + (IF d <= Len(data[i]) THEN data[i][d] ELSE 0)]
             ELSE rest

\* A row of cluster ci longer than data[0] adds to components that
\* newCentroids[ci] does not have (undefined += number): the components
\* from data[0].length up to the longest such row are NaN.
RECURSIVE NaNTail(_, _, _)
NaNTail(asg, ci, i) ==
    IF i > Len(asg) THEN 0
    ELSE LET rest == NaNTail(asg, ci, i + 1)
             over == IF asg[i] = ci /\ Len(data[i]) > Len(data[1])
                     THEN Len(data[i]) - Len(data[1]) ELSE 0
         IN  IF over > rest THEN over ELSE rest

Counts(asg, ci) == Cardinality({ i \in 1..Len(asg) : asg[i] = ci })

EmptyClusters(asg) == { ci \in 0..(k - 1) : Counts(asg, ci) = 0 }

\* newCentroids after the division / re-initialisation loop; reseed maps
\* each empty cluster to its random data index.
NewCentroidsUndivided(asg, reseed) ==
    [j \in 1..k |->
        IF Counts(asg, j - 1) > 0
        THEN [s |-> SumRows(asg, j - 1, 1), c |-> 1,
              nan |-> NaNTail(asg, j - 1, 1)]
        ELSE RowAsCentroid(reseed[j - 1])]
NewCentroids(asg, reseed) ==
    [j \in 1..k |->
        IF Counts(asg, j - 1) > 0
        THEN [s |-> SumRows(asg, j - 1, 1), c |-> Counts(asg, j - 1),
              nan |-> NaNTail(asg, j - 1, 1)]
        ELSE RowAsCentroid(reseed[j - 1])]

\* Step 3 of an iteration and the loop increment / condition.
\* new Array(k) throws a RangeError for k < 0;
\* newCentroids[clusterIndex][d] += ... dereferences newCentroids[clusterIndex],
\* which is undefined for clusterIndex >= k, and then throws.
KmUpdate(reseed) ==
    /\ km_pc = "update"
    /\ IF k < 0 \/ \E i \in 1..Len(assignments) : assignments[i] >= k
       THEN /\ km_pc' = "threw"
            /\ UNCHANGED << centroids, iter >>
       ELSE /\ centroids' = NewCentroids(assignments, reseed)
            /\ iter' = iter + 1
            /\ km_pc' = IF LoopContinues(iter + 1, changed)
                         THEN "assign" ELSE "done"
    /\ UNCHANGED << data, dataLength, k, maxIterations, usedIndices,
                    assignments, changed >>

\* The message of the error kmeans threw. In the assignment step rows and
\* centroids are visited in order: squaredDistance(a, b) reads a.length
\* first and b[0] only for a row with components, so an undefined centroid
\* is met at the first such row, before the first undefined row.
ThrownMessage ==
    IF k < 0 THEN InvalidLengthMsg
    ELSE IF \E i \in 1..Len(data) :
               /\ Len(data[i]) > 0
               /\ \E j \in 1..Len(centroids) : centroids[j] = UndefinedCentroid
         THEN ReadingZeroMsg
         ELSE ReadingLengthMsg

KmInit == \E index \in 0..(dataLength - 1) : KmInitDraw(index)
KmRecalc == \E reseed \in [EmptyClusters(assignments) -> 0..(dataLength - 1)] :
                KmUpdate(reseed)

\* ------------------------------------------- kmeans called on its own

NoCalls == [embed |-> 0, kmeans |-> 0, name |-> 0]

IdleRun ==
    /\ clusters = Null
    /\ isClustering = FALSE
    /\ clusteringError = NoError
    /\ run_pc = "idle"
    /\ promptsToEmbed = << >>
    /\ numClusters = 0
    /\ bucketI = 0
    /\ newClusters = << >>
    /\ inFlight = 0
    /\ orphans = 0
    /\ invocations = 0
    /\ calls = NoCalls
    /\ returned = -1
    /\ failed = "none"

\* No component that uses useHistoryState is rendered.
IdleHook ==
    /\ history = [past |-> << >>, present |-> "none", future |-> << >>]
    /\ canUndo = FALSE
    /\ canRedo = FALSE
    /\ lastCall = [op |-> "none", arg |-> "none"]

\* The Chat component is not rendered.
IdleChat ==
    /\ apiKey = TRUE
    /\ project = Null
    /\ prompt = << >>
    /\ chatHistory = << >>
    /\ isLoading = FALSE
    /\ error = NoError
    /\ chat_pc = "idle"
    /\ effectPending = FALSE
    /\ lastEvent = "none"

\* Two well separated pairs of points.
SeparationData == << <<0, 0>>, <<0, 0>>, <<10, 10>>, <<10, 10>> >>

DataSets == UNION { [1..n -> Points] : n \in 0..MaxN } \cup { SeparationData }

InitKM ==
    /\ data \in DataSets
    /\ dataLength = Len(data)
    /\ k \in 0..MaxK
    /\ maxIterations \in (0..MaxIterBound) \cup {DefaultMaxIterations}
    /\ centroids = << >>
    /\ usedIndices = {}
    /\ assignments = << >>
    /\ changed = FALSE
    /\ iter = 0
    /\ km_pc = "call"
    /\ mounted = FALSE
    /\ projects = << >>
    /\ IdleRun
    /\ IdleHook
    /\ IdleChat

NextKM ==
    \/ (KmEnter /\ UNCHANGED << mounted, projects, uiVars, runVars, obsVars,
                         otherVars >>)
    \/ (KmInit /\ UNCHANGED << mounted, projects, uiVars, runVars, obsVars,
                         otherVars >>)
    \/ (KmAssign /\ UNCHANGED << mounted, projects, uiVars, runVars, obsVars,
                         otherVars >>)
    \/ (KmRecalc /\ UNCHANGED << mounted, projects, uiVars, runVars, obsVars,
                         otherVars >>)

SpecKM == InitKM /\ [][NextKM]_vars

\* kmeans called with input the spec calls malformed: no vectors, k < 1,
\* or vectors of different dimensionality.
OtherRows == { << 5 >>, << 1, 0, 7 >> }

AnyDataSets == UNION { [1..n -> Points \cup OtherRows] : n \in 0..MaxAnyN }

InitKMAny ==
    /\ data \in AnyDataSets
    /\ dataLength = Len(data)
    /\ k \in MinK..MaxK
    /\ maxIterations \in {0, 1, DefaultMaxIterations}
    /\ centroids = << >>
    /\ usedIndices = {}
    /\ assignments = << >>
    /\ changed = FALSE
    /\ iter = 0
    /\ km_pc = "call"
    /\ mounted = FALSE
    /\ projects = << >>
    /\ IdleRun
    /\ IdleHook
    /\ IdleChat

SpecKMAny == InitKMAny /\ [][NextKM]_vars

\* kmeans is straight-line synchronous code, so it keeps taking steps, and
\* Math.random does not return used indices for ever.
SpecKMFair == SpecKM /\ WF_vars(NextKM)

\* ------------------------------------------------ geminiService wrappers

\* String.prototype.trim on a string kept as a sequence of characters.
\* A character is a one-character string, or the name of its code point
\* where TLA+ has no escape for it. WhiteSpace and LineTerminator of
\* ECMAScript are what trim removes.
WhiteSpace ==
    { " ", "\t", "\f", "U+000B", "U+00A0", "U+FEFF", "U+1680", "U+2000",
      "U+2001", "U+2002", "U+2003", "U+2004", "U+2005", "U+2006", "U+2007",
      "U+2008", "U+2009", "U+200A", "U+202F", "U+205F", "U+3000" }
LineTerminator == { "\n", "\r", "U+2028", "U+2029" }
IsSpace(ch) == ch \in WhiteSpace \cup LineTerminator
RECURSIVE TrimStart(_)
TrimStart(str) ==
    IF str # << >> /\ IsSpace(Head(str)) THEN TrimStart(Tail(str)) ELSE str
RECURSIVE TrimEnd(_)
TrimEnd(str) ==
    IF str # << >> /\ IsSpace(str[Len(str)])
    THEN TrimEnd(SubSeq(str, 1, Len(str) - 1))
    ELSE str
Trim(str) == TrimEnd(TrimStart(str))

\* generateClusterName on success: response.text.trim().replace(/"/g, '')
CleanName(text) == SelectSeq(Trim(text), LAMBDA ch : ch # "\"")

\* Texts the naming model may answer with.
NameResponses ==
    { << " ", "\n", "\"", "A", " ", "B", "\"", "\t", "U+00A0", "\n" >> }

\* ---------------------------------------------------------- Dashboard

Truthy(str) == str # ""

\* projects.filter(p => p.prompts.text || p.prompts.image || p.prompts.tts)
HasPrompt(p) ==
    Truthy(p.prompts.text) \/ Truthy(p.prompts.image) \/ Truthy(p.prompts.tts)
ProjectsWithPrompts(ps) == SelectSeq(ps, HasPrompt)

\* promptsToEmbed, reduced to the id of each entry
PromptIds(ps) ==
    LET pwp == ProjectsWithPrompts(ps) IN [i \in 1..Len(pwp) |-> pwp[i].id]

\* The cluster button: rendered when projects.length > 1,
\* disabled={isClustering}.
ButtonRendered == Len(projects) > 1
ButtonNeverDisabled == FALSE
ButtonDisabled == isClustering

\* kmeansResult.assignments.map((a, index) => a === i ? index : -1)
\*                         .filter(index => index !== -1)
BucketMatchesUpTo(assignment, i) == assignment <= i
BucketMatches(assignment, i) == assignment = i
ProjectIndices(asg, i) ==
    SelectSeq([j \in 1..Len(asg) |-> j - 1],
              LAMBDA index : BucketMatches(asg[index + 1], i))

\* projectIndices.map(index => data[index].id)
ProjectIdsInCluster(asg, i) ==
    LET idx == ProjectIndices(asg, i)
    IN  [j \in 1..Len(idx) |-> promptsToEmbed[idx[j] + 1]]

\* if (projectIndices.length > 0)
BucketAlwaysNamed(asg, i) == TRUE
BucketNamed(asg, i) == Len(ProjectIndices(asg, i)) > 0

\* First bucket index >= i that reaches the naming call, or nc when the
\* for loop runs out.
RECURSIVE NextBucket(_, _, _)
NextBucket(asg, i, nc) ==
    IF i >= nc THEN nc
    ELSE IF BucketNamed(asg, i) THEN i
    ELSE NextBucket(asg, i + 1, nc)

\* The locals of kmeans and of the handler are dropped when the run ends.
DropLocals ==
    /\ data' = << >>
    /\ dataLength' = 0
    /\ k' = 0
    /\ maxIterations' = 0
    /\ centroids' = << >>
    /\ usedIndices' = {}
    /\ assignments' = << >>
    /\ changed' = FALSE
    /\ iter' = 0
    /\ km_pc' = "idle"
    /\ run_pc' = "idle"
    /\ promptsToEmbed' = << >>
    /\ numClusters' = 0
    /\ bucketI' = 0
    /\ newClusters' = << >>

\* finally { setIsClustering(false) }
FinallySkipped ==
    /\ UNCHANGED otherVars
    /\ UNCHANGED isClustering
    /\ inFlight' = inFlight - 1
    /\ DropLocals
Finally ==
    /\ UNCHANGED otherVars
    /\ isClustering' = FALSE
    /\ inFlight' = inFlight - 1
    /\ DropLocals

\* catch (err) { setClusteringError(err.message) } finally { ... }
CatchEmitsPartial(message, what) ==
    /\ clusteringError' = message
    /\ failed' = what
    /\ clusters' = Some(newClusters)
    /\ Finally
    /\ UNCHANGED << mounted, projects, orphans, invocations, calls,
                    returned >>
Catch(message, what) ==
    /\ clusteringError' = message
    /\ failed' = what
    /\ Finally
    /\ UNCHANGED << clusters, mounted, projects, orphans, invocations, calls,
                    returned >>

\* The for loop from bucket `from` with `acc` pushed so far, up to the next
\* await generateClusterName(...) or to setClusters(newClusters).
ContinueAllAtOnce(from, acc) ==
    LET j == NextBucket(assignments, from, numClusters) IN
    IF j < numClusters
    THEN /\ bucketI' = j
         /\ newClusters' = acc
         /\ run_pc' = "awaitName"
         /\ km_pc' = "idle"
         /\ calls' = [calls EXCEPT !.name =
                         Cardinality({ assignments[i] :
                                         i \in 1..Len(assignments) })]
         /\ UNCHANGED << data, dataLength, k, maxIterations, centroids,
                         usedIndices, assignments, changed, iter >>
         /\ UNCHANGED << mounted, projects, uiVars, promptsToEmbed,
                         numClusters, inFlight, orphans, invocations,
                         returned, failed, otherVars >>
    ELSE /\ clusters' = Some(acc)
         /\ Finally
         /\ UNCHANGED << mounted, projects, clusteringError, orphans,
                         invocations, calls, returned, failed >>
Continue(from, acc) ==
    LET j == NextBucket(assignments, from, numClusters) IN
    IF j < numClusters
    THEN /\ bucketI' = j
         /\ newClusters' = acc
         /\ run_pc' = "awaitName"
         /\ km_pc' = "idle"
         /\ calls' = [calls EXCEPT !.name = @ + 1]
         /\ UNCHANGED << data, dataLength, k, maxIterations, centroids,
                         usedIndices, assignments, changed, iter >>
         /\ UNCHANGED << mounted, projects, uiVars, promptsToEmbed,
                         numClusters, inFlight, orphans, invocations,
                         returned, failed, otherVars >>
    ELSE /\ clusters' = Some(acc)
         /\ Finally
         /\ UNCHANGED << mounted, projects, clusteringError, orphans,
                         invocations, calls, returned, failed >>

\* A click on the cluster button: handleClusterProjects up to its first
\* await, embedContentBatch(texts) being called on the way.
HandleClusterProjects ==
    /\ mounted
    /\ ButtonRendered
    /\ ~ButtonDisabled
    /\ run_pc # "engine"
    /\ invocations < MaxRuns
    /\ invocations' = invocations + 1
    /\ IF Len(projects) < 2
       THEN /\ clusteringError' = NeedTwoProjectsMsg
            /\ calls' = NoCalls
            /\ returned' = -1
            /\ failed' = "guard"
            /\ UNCHANGED << kmVars, clusters, isClustering, runVars,
                            inFlight >>
       ELSE /\ isClustering' = TRUE
            /\ clusteringError' = NoError
            /\ clusters' = Null
            /\ promptsToEmbed' = PromptIds(projects)
            /\ run_pc' = "awaitEmbed"
            /\ calls' = [NoCalls EXCEPT !.embed = 1]
            /\ returned' = -1
            /\ failed' = "none"
            /\ inFlight' = inFlight + 1
            /\ UNCHANGED << kmVars, numClusters, bucketI, newClusters >>
    /\ UNCHANGED << mounted, projects, orphans, otherVars >>

\* embedContentBatch resolves with `embeddings`; the handler builds data,
\* picks numClusters and calls kmeans(data.map(d => d.embedding), numClusters).
EmbedResolve(embeddings) ==
    /\ run_pc = "awaitEmbed"
    /\ returned' = Len(embeddings)
    /\ data' = SubSeq(embeddings, 1, Min(Len(embeddings), Len(promptsToEmbed)))
    /\ dataLength' = Len(promptsToEmbed)
    /\ numClusters' = Min(Len(promptsToEmbed), MaxClusters)
    /\ k' = numClusters'
    /\ maxIterations' = DefaultMaxIterations
    /\ km_pc' = "call"
    /\ run_pc' = "engine"
    /\ calls' = [calls EXCEPT !.kmeans = @ + 1]
    /\ UNCHANGED << centroids, usedIndices, assignments, changed, iter >>
    /\ UNCHANGED << mounted, projects, uiVars, promptsToEmbed, bucketI,
                    newClusters, inFlight, orphans, invocations, failed,
                    otherVars >>

\* embedContentBatch rejects with Error("Failed to generate embeddings.").
EmbedRejectSwallowed ==
    /\ run_pc = "awaitEmbed"
    /\ clusters' = Some(<< >>)
    /\ failed' = "embed"
    /\ Finally
    /\ UNCHANGED << mounted, projects, clusteringError, orphans, invocations,
                    calls, returned >>
EmbedReject ==
    /\ run_pc = "awaitEmbed"
    /\ Catch(EmbedFailedMsg, "embed")

\* kmeans has returned or thrown; the handler goes on synchronously.
AfterKmeans ==
    /\ run_pc = "engine"
    /\ km_pc \in {"done", "threw"}
    /\ IF km_pc = "threw"
       THEN Catch(ThrownMessage, "engine")
       ELSE Continue(0, << >>)

\* newClusters.push({ name: clusterName, projectIds: projectIdsInCluster })
PushClusterInFront(list, cluster) == << cluster >> \o list
PushCluster(list, cluster) == Append(list, cluster)

\* generateClusterName resolves; the cluster is pushed and the loop goes on.
NameResolve(text) ==
    /\ run_pc = "awaitName"
    /\ Continue(bucketI + 1,
                PushCluster(newClusters,
                       [name |-> CleanName(text),
                        projectIds |-> ProjectIdsInCluster(assignments, bucketI)]))

\* generateClusterName rejects with
\* Error("Failed to generate a name for the cluster.").
NameRejectRetried ==
    /\ run_pc = "awaitName"
    /\ calls' = [calls EXCEPT !.name = @ + 1]
    /\ UNCHANGED << kmVars, mounted, projects, uiVars, runVars, inFlight,
                    orphans, invocations, returned, failed, otherVars >>
NameReject ==
    /\ run_pc = "awaitName"
    /\ Catch(NameFailedMsg, "name")

\* useState initial values of a freshly mounted Dashboard.
FreshState ==
    /\ clusters' = Null
    /\ isClustering' = FALSE
    /\ clusteringError' = NoError
    /\ calls' = NoCalls
    /\ returned' = -1
    /\ failed' = "none"

\* App.renderPage switches to another page: the Dashboard is unmounted and
\* its state is gone.  A run that is awaiting a collaborator stays pending;
\* its later steps use only its own locals and the setters of the unmounted
\* instance, which React drops.
Unmount ==
    /\ mounted
    /\ run_pc # "engine"
    /\ mounted' = FALSE
    /\ orphans' = IF run_pc = "idle" THEN orphans ELSE orphans + 1
    /\ FreshState
    /\ DropLocals
    /\ UNCHANGED << projects, inFlight, invocations, otherVars >>

\* App.renderPage renders the Dashboard again (backToDashboard).
Mount ==
    /\ ~mounted
    /\ mounted' = TRUE
    /\ UNCHANGED << kmVars, projects, uiVars, runVars, obsVars, otherVars >>

\* A run of an unmounted Dashboard reaches its finally block.
OrphanSettle ==
    /\ orphans > 0
    /\ run_pc # "engine"
    /\ orphans' = orphans - 1
    /\ inFlight' = inFlight - 1
    /\ UNCHANGED << kmVars, mounted, projects, uiVars, runVars, invocations,
                    calls, returned, failed, otherVars >>

\* Responses the embedding provider may give to n texts: one vector per
\* text, one too few, or one too many.
EmbedResponses(n) ==
    UNION { [1..m -> Points] : m \in { n - 1, n, n + 1 } \cap Nat }

\* Prompt fields a project may carry: none, the text typed into the
\* text-to-speech page, or the prompt typed into the video page.
NoPrompts == [text |-> "", image |-> "", tts |-> "", video |-> ""]
PromptProfiles ==
    { NoPrompts,
      [NoPrompts EXCEPT !.tts = "hello"],
      [NoPrompts EXCEPT !.video = "clip"] }

\* Texts a project page writes into the prompt field it owns: prompts.tts
\* (AudioTools), prompts.image (ImageGeneration), prompts.video
\* (VideoGeneration). No page writes prompts.text.
PromptTexts ==
    [tts |-> { "", "hello" }, image |-> { "" }, video |-> { "", "clip" }]

\* App.handleCreateProject, from the Dashboard's button: a project without
\* prompts and with a new id is put in front of the list, and the page
\* 'text' is shown, so the Dashboard is unmounted as in Unmount.
NewProject(ps) == [id |-> 10 + Len(ps) + 1, prompts |-> NoPrompts]
HandleCreateProject ==
    /\ mounted
    /\ run_pc # "engine"
    /\ Len(projects) < MaxProjects
    /\ projects' = << NewProject(projects) >> \o projects
    /\ mounted' = FALSE
    /\ orphans' = IF run_pc = "idle" THEN orphans ELSE orphans + 1
    /\ FreshState
    /\ DropLocals
    /\ UNCHANGED << inFlight, invocations, otherVars >>

\* App.handleUpdateProject called by a project page that is shown instead
\* of the Dashboard: the page writes its prompt field of a project. Only
\* the prompt records of PromptProfiles are followed.
HandleUpdateProject(index, field, newText) ==
    /\ ~mounted
    /\ LET updatedProject ==
             [projects[index] EXCEPT !.prompts[field] = newText]
       IN  /\ updatedProject.prompts \in PromptProfiles
           /\ projects' = [projects EXCEPT ![index] = updatedProject]
    /\ UNCHANGED << kmVars, mounted, uiVars, runVars, obsVars, otherVars >>

\* Project lists as handleCreateProject builds them: the newest project,
\* with the highest id, in front.
ProjectLists ==
    UNION { { [i \in 1..n |-> [id |-> 10 + (n - i) + 1, prompts |-> f[i]]] :
                f \in [1..n -> PromptProfiles] } : n \in 0..MaxProjects }

Init ==
    /\ projects \in ProjectLists
    /\ data = << >>
    /\ dataLength = 0
    /\ k = 0
    /\ maxIterations = 0
    /\ centroids = << >>
    /\ usedIndices = {}
    /\ assignments = << >>
    /\ changed = FALSE
    /\ iter = 0
    /\ km_pc = "idle"
    /\ mounted = TRUE
    /\ IdleRun
    /\ IdleHook
    /\ IdleChat

KmStep == KmEnter \/ KmInit \/ KmAssign \/ KmRecalc

Next ==
    \/ HandleClusterProjects
    \/ /\ run_pc = "awaitEmbed"
       /\ \E embeddings \in EmbedResponses(Len(promptsToEmbed)) :
              EmbedResolve(embeddings)
    \/ EmbedReject
    \/ (KmEnter /\ UNCHANGED << mounted, projects, uiVars, runVars, obsVars,
                         otherVars >>)
    \/ (KmInit /\ UNCHANGED << mounted, projects, uiVars, runVars, obsVars,
                         otherVars >>)
    \/ (KmAssign /\ UNCHANGED << mounted, projects, uiVars, runVars, obsVars,
                         otherVars >>)
    \/ (KmRecalc /\ UNCHANGED << mounted, projects, uiVars, runVars, obsVars,
                         otherVars >>)
    \/ AfterKmeans
    \/ \E text \in NameResponses : NameResolve(text)
    \/ NameReject
    \/ Unmount
    \/ Mount
    \/ OrphanSettle
    \/ HandleCreateProject
    \/ \E index \in 1..Len(projects) :
          \E field \in DOMAIN PromptTexts :
              \E newText \in PromptTexts[field] :
                  HandleUpdateProject(index, field, newText)

Spec == Init /\ [][Next]_vars

\* The steps of a run in flight: an awaited promise settles, one way or the
\* other, and the synchronous code between two awaits runs to its end.
RunStep ==
    \/ /\ run_pc = "awaitEmbed"
       /\ \E embeddings \in EmbedResponses(Len(promptsToEmbed)) :
              EmbedResolve(embeddings)
    \/ EmbedReject
    \/ (KmStep /\ UNCHANGED << mounted, projects, uiVars, runVars, obsVars,
                         otherVars >>)
    \/ AfterKmeans
    \/ \E text \in NameResponses : NameResolve(text)
    \/ NameReject

SpecFair == Spec /\ WF_vars(RunStep)

\* ------------------------------------------------------ useHistoryState

\* kmeans is not running and no Dashboard is rendered.
IdleKmeans ==
    /\ data = << >>
    /\ dataLength = 0
    /\ k = 0
    /\ maxIterations = 0
    /\ centroids = << >>
    /\ usedIndices = {}
    /\ assignments = << >>
    /\ changed = FALSE
    /\ iter = 0
    /\ km_pc = "idle"
    /\ mounted = FALSE
    /\ projects = << >>

\* Values of the state type T, and what reading past the end of an array
\* gives.
Values == { "a", "b" }
Undefined == "undefined"

\* Functional updaters handed to setState.
Updaters ==
    { [v \in Values \cup {Undefined} |-> v],
      [v \in Values \cup {Undefined} |-> "a"],
      [v \in Values \cup {Undefined} |-> IF v = "a" THEN "b" ELSE "a"] }

HistoryLength(h) == Len(h.past) + Len(h.future)

\* The updater of undo: past[past.length - 1] and past.slice(0, -1).
Undone(h) ==
    [past |-> IF Len(h.past) = 0 THEN << >>
              ELSE SubSeq(h.past, 1, Len(h.past) - 1),
     present |-> IF Len(h.past) = 0 THEN Undefined ELSE h.past[Len(h.past)],
     future |-> << h.present >> \o h.future]

\* The updater of redo: future[0] and future.slice(1).
Redone(h) ==
    [past |-> Append(h.past, h.present),
     present |-> IF Len(h.future) = 0 THEN Undefined ELSE h.future[1],
     future |-> IF Len(h.future) = 0 THEN << >> ELSE Tail(h.future)]

\* The updater of setState once newPresent is known.
PushedKeepingFuture(h, newPresent) ==
    IF newPresent = h.present THEN h
    ELSE [past |-> Append(h.past, h.present),
          present |-> newPresent,
          future |-> h.future]
Pushed(h, newPresent) ==
    IF newPresent = h.present THEN h
    ELSE [past |-> Append(h.past, h.present),
          present |-> newPresent,
          future |-> << >>]

\* The component renders: canUndo and canRedo are computed from the state
\* and undo / redo are re-created with them (useCallback dependencies).
Render ==
    /\ canUndo' = (Len(history.past) > 0)
    /\ canRedo' = (Len(history.future) > 0)
    /\ lastCall' = [op |-> "render", arg |-> "none"]
    /\ UNCHANGED history

\* undo(), with the canUndo its closure captured at the last render.
Undo ==
    /\ history' = IF ~canUndo THEN history ELSE Undone(history)
    /\ HistoryLength(history') <= MaxHistory
    /\ lastCall' = [op |-> "undo", arg |-> "none"]
    /\ UNCHANGED << canUndo, canRedo >>

\* redo(), with the canRedo its closure captured at the last render.
Redo ==
    /\ history' = IF ~canRedo THEN history ELSE Redone(history)
    /\ HistoryLength(history') <= MaxHistory
    /\ lastCall' = [op |-> "redo", arg |-> "none"]
    /\ UNCHANGED << canUndo, canRedo >>

\* setState(newState) with a value, or with a function of the present.
SetState(newPresent) ==
    /\ history' = Pushed(history, newPresent)
    /\ HistoryLength(history') <= MaxHistory
    /\ lastCall' = [op |-> "setState", arg |-> newPresent]
    /\ UNCHANGED << canUndo, canRedo >>

ResetState(newState) ==
    /\ history' = [past |-> << >>, present |-> newState, future |-> << >>]
    /\ lastCall' = [op |-> "resetState", arg |-> newState]
    /\ UNCHANGED << canUndo, canRedo >>

InitHistory ==
    /\ IdleKmeans
    /\ IdleRun
    /\ IdleChat
    /\ \E initialState \in Values :
          history = [past |-> << >>, present |-> initialState,
                     future |-> << >>]
    /\ canUndo = FALSE
    /\ canRedo = FALSE
    /\ lastCall = [op |-> "none", arg |-> "none"]

NextHistory ==
    \/ (Render /\ UNCHANGED << kmVars, mounted, projects, uiVars, runVars,
                               obsVars, chatVars >>)
    \/ (Undo /\ UNCHANGED << kmVars, mounted, projects, uiVars, runVars,
                             obsVars, chatVars >>)
    \/ (Redo /\ UNCHANGED << kmVars, mounted, projects, uiVars, runVars,
                             obsVars, chatVars >>)
    \/ \E newState \in Values :
          SetState(newState)
              /\ UNCHANGED << kmVars, mounted, projects, uiVars, runVars,
                              obsVars, chatVars >>
    \/ \E updater \in Updaters :
          SetState(updater[history.present])
              /\ UNCHANGED << kmVars, mounted, projects, uiVars, runVars,
                              obsVars, chatVars >>
    \/ \E newState \in Values :
          ResetState(newState)
              /\ UNCHANGED << kmVars, mounted, projects, uiVars, runVars,
                              obsVars, chatVars >>

SpecHistory == InitHistory /\ [][NextHistory]_vars

\* ===================================================================
\* Chat (pages/TextGeneration.tsx)
\* ===================================================================

Chars == { " ", "\n", "h" }
Prompts == UNION { [1..n -> Chars] : n \in 0..MaxPrompt }
Responses == { << "o", "k" >> }

\* The projects the Chat can be opened on: App.handleSelectProject shows the
\* page 'text' for a project whose lastActivePage is 'text' or missing.
ChatProjects ==
    [assets : 0..MaxAssets, lastActivePage : {"text", Undefined}]
NoApiKeyMsg == "API key is not set. Please set the API_KEY environment variable."
ChatFailedMsg == "Failed to get chat response. Please check your API key."

UserMessage(text) == [role |-> "user", text |-> text]
ModelMessage(text) == [role |-> "model", text |-> text]

\* prev.slice(0, -1)
SliceOffLast(h) == IF Len(h) = 0 THEN << >> ELSE SubSeq(h, 1, Len(h) - 1)

\* The effect on [project] has run after the render of a new project object
\* and queued setChatHistory([]) and setPrompt(''); React has not rendered
\* them yet. The state variables hold what the last render shows and what
\* the functions of that render have captured; a state update made now
\* joins the queue behind the effect's two and is rendered with them.
QueuedChatHistory == IF effectPending THEN << >> ELSE chatHistory
QueuedPrompt == IF effectPending THEN << >> ELSE prompt

\* The render of the effect's updates, with nothing else in the queue.
ProjectEffect ==
    /\ effectPending
    /\ chatHistory' = << >>
    /\ prompt' = << >>
    /\ effectPending' = FALSE
    /\ lastEvent' = "effect"
    /\ UNCHANGED << apiKey, project, isLoading, error, chat_pc >>

\* onChange of the textarea, which is disabled while loading.
SetPrompt(value) ==
    /\ ~isLoading
    /\ prompt' = value
    /\ chatHistory' = QueuedChatHistory
    /\ effectPending' = FALSE
    /\ lastEvent' = "type"
    /\ UNCHANGED << apiKey, project, isLoading, error, chat_pc >>

\* handleSend up to its await, on the prompt, chatHistory and isLoading of
\* the last render.
HandleSend ==
    LET trimmedPrompt == Trim(prompt) IN
    IF trimmedPrompt = << >> \/ isLoading
    THEN /\ lastEvent' = "sendIgnored"
         /\ UNCHANGED << apiKey, project, prompt, chatHistory, isLoading,
                         error, chat_pc, effectPending >>
    ELSE IF ~apiKey
    THEN /\ error' = NoApiKeyMsg
         /\ chatHistory' = QueuedChatHistory
         /\ prompt' = QueuedPrompt
         /\ effectPending' = FALSE
         /\ lastEvent' = "sendNoKey"
         /\ UNCHANGED << apiKey, project, isLoading, chat_pc >>
    ELSE /\ Len(chatHistory) + 2 <= MaxChat
         /\ isLoading' = TRUE
         /\ error' = NoError
         /\ chatHistory' = Append(chatHistory, UserMessage(trimmedPrompt))
         /\ prompt' = << >>
         /\ effectPending' = FALSE
         /\ chat_pc' = "awaitReply"
         /\ lastEvent' = "send"
         /\ UNCHANGED << apiKey, project >>

\* continueChat resolves: the updater appends to the history it is given.
ReplyArrives(responseText) ==
    /\ chat_pc = "awaitReply"
    /\ chatHistory' = Append(QueuedChatHistory, ModelMessage(responseText))
    /\ prompt' = QueuedPrompt
    /\ effectPending' = FALSE
    /\ isLoading' = FALSE
    /\ chat_pc' = "idle"
    /\ lastEvent' = "reply"
    /\ UNCHANGED << apiKey, project, error >>

\* continueChat rejects: catch and finally.
ReplyFails ==
    /\ chat_pc = "awaitReply"
    /\ error' = ChatFailedMsg
    /\ chatHistory' = SliceOffLast(QueuedChatHistory)
    /\ prompt' = QueuedPrompt
    /\ effectPending' = FALSE
    /\ isLoading' = FALSE
    /\ chat_pc' = "idle"
    /\ lastEvent' = "failure"
    /\ UNCHANGED << apiKey, project >>

\* handleSaveToProject, on the project and chatHistory of the last render:
\* onUpdateProject makes App build a new project object with one more
\* asset. The render of it applies what is queued, and the effect on
\* [project] runs after it.
HandleSaveToProject ==
    /\ project # Null /\ Len(chatHistory) > 0
    /\ project[1].assets < MaxAssets
    /\ project' = Some([project[1] EXCEPT !.assets = @ + 1])
    /\ chatHistory' = QueuedChatHistory
    /\ prompt' = QueuedPrompt
    /\ effectPending' = TRUE
    /\ lastEvent' = "save"
    /\ UNCHANGED << apiKey, isLoading, error, chat_pc >>

\* App.handleSetCurrentPage('text') from the Sidebar while the Chat is shown:
\* a project whose lastActivePage is not 'text' is replaced by a new object
\* (handleUpdateProject), and the effect on [project] runs after the render
\* of it; otherwise nothing is rendered anew.
HandleSetCurrentPage ==
    /\ project # Null
    /\ IF project[1].lastActivePage # "text"
       THEN /\ project' = Some([project[1] EXCEPT !.lastActivePage = "text"])
            /\ chatHistory' = QueuedChatHistory
            /\ prompt' = QueuedPrompt
            /\ effectPending' = TRUE
       ELSE UNCHANGED << project, chatHistory, prompt, effectPending >>
    /\ lastEvent' = "navigate"
    /\ UNCHANGED << apiKey, isLoading, error, chat_pc >>

\* The user leaves the Chat and opens it again, on any project: a new
\* component instance with its initial state, on which the effect's updates
\* change nothing; a reply still awaited belongs to the instance that is
\* gone.
Remount(selected) ==
    /\ project' = Some(selected)
    /\ prompt' = << >>
    /\ chatHistory' = << >>
    /\ isLoading' = FALSE
    /\ error' = NoError
    /\ chat_pc' = "idle"
    /\ effectPending' = FALSE
    /\ lastEvent' = "remount"
    /\ UNCHANGED apiKey

InitChat ==
    /\ IdleKmeans
    /\ IdleRun
    /\ IdleHook
    /\ apiKey \in BOOLEAN
    /\ \E selected \in ChatProjects : project = Some(selected)
    /\ prompt = << >>
    /\ chatHistory = << >>
    /\ isLoading = FALSE
    /\ error = NoError
    /\ chat_pc = "idle"
    /\ effectPending = FALSE
    /\ lastEvent = "none"

NextChat ==
    \/ \E value \in Prompts :
          SetPrompt(value)
              /\ UNCHANGED << kmVars, mounted, projects, uiVars, runVars,
                              obsVars, hookVars >>
    \/ (HandleSend /\ UNCHANGED << kmVars, mounted, projects, uiVars,
                                   runVars, obsVars, hookVars >>)
    \/ \E responseText \in Responses :
          ReplyArrives(responseText)
              /\ UNCHANGED << kmVars, mounted, projects, uiVars, runVars,
                              obsVars, hookVars >>
    \/ (ReplyFails /\ UNCHANGED << kmVars, mounted, projects, uiVars,
                                   runVars, obsVars, hookVars >>)
    \/ (HandleSaveToProject /\ UNCHANGED << kmVars, mounted, projects,
                                            uiVars, runVars, obsVars,
                                            hookVars >>)
    \/ (HandleSetCurrentPage /\ UNCHANGED << kmVars, mounted, projects,
                                             uiVars, runVars, obsVars,
                                             hookVars >>)
    \/ (ProjectEffect /\ UNCHANGED << kmVars, mounted, projects, uiVars,
                                      runVars, obsVars, hookVars >>)
    \/ \E selected \in ChatProjects :
          Remount(selected)
              /\ UNCHANGED << kmVars, mounted, projects, uiVars, runVars,
                              obsVars, hookVars >>

SpecChat == InitChat /\ [][NextChat]_vars

\* ===================================================================
\* Properties
\* ===================================================================

Returned == km_pc = "done"
WellFormedCall == dataLength >= 1 /\ k >= 1 /\ Len(data) = dataLength

\* C1: for non-empty data and k >= 1 (k may exceed the number of vectors,
\* any random draws) the returned assignments have one entry per input
\* vector and every entry is an integer in [0, k).
C1_AssignmentsInRange ==
    (Returned /\ WellFormedCall) =>
        /\ Len(assignments) = dataLength
        /\ \A i \in 1..Len(assignments) : assignments[i] \in 0..(k - 1)

C1_Witness ==
    /\ Returned /\ WellFormedCall
    /\ k > dataLength
    /\ iter >= 2
    /\ \E i \in 1..Len(assignments) : assignments[i] > 0

\* Number of times project id `id` occurs in the member lists of `list`.
Occurrences(list, id) ==
    Cardinality({ pos \in (1..Len(list)) \X (1..MaxProjects + 1) :
                    /\ pos[2] <= Len(list[pos[1]].projectIds)
                    /\ list[pos[1]].projectIds[pos[2]] = id })

\* C2: when a run succeeds the emitted clusters partition the projects that
\* passed the filter: each of them is in exactly one member list, once, and
\* a project that failed the filter is in none.
C2_Partition ==
    clusters # Null =>
        \A p \in 1..Len(projects) :
            Occurrences(clusters[1], projects[p].id)
                = IF HasPrompt(projects[p]) THEN 1 ELSE 0

C2_Witness ==
    /\ clusters # Null
    /\ Len(clusters[1]) >= 2
    /\ \E p \in 1..Len(projects) : ~HasPrompt(projects[p])

\* C3: with fewer than two eligible projects the run fails with the
\* insufficient-data error and no collaborator and no engine is invoked.
C3_InsufficientDataGuard ==
    (invocations >= 1 /\ mounted /\ Len(ProjectsWithPrompts(projects)) < 2) =>
        /\ clusteringError = NeedTwoProjectsMsg
        /\ calls = NoCalls

\* C4 as claimed: a naming failure does not fail the run; the cluster list
\* is still emitted and no run-level error is reported.
C4_NamingFailureTolerated ==
    failed = "name" => (clusters # Null /\ clusteringError = NoError)

\* C4 as amended: a naming failure for one bucket ends the run with the
\* run-level error "Failed to generate a name for the cluster."; no cluster
\* list is emitted, not even the clusters named before the failure, and
\* isClustering is false again.
C4_NamingFailureAborts ==
    failed = "name" =>
        /\ clusters = Null
        /\ clusteringError = NameFailedMsg
        /\ ~isClustering
        /\ run_pc = "idle"

C4_Witness ==
    /\ failed = "name"
    /\ calls.name >= 2
    /\ run_pc = "idle"

\* C5: if embedContentBatch fails the run ends with a run-level error,
\* clusters stays null and neither kmeans nor generateClusterName is called.
C5_EmbedFailureAborts ==
    failed = "embed" =>
        /\ clusters = Null
        /\ clusteringError = EmbedFailedMsg
        /\ ~isClustering
        /\ calls.kmeans = 0
        /\ calls.name = 0

C5_Witness ==
    /\ failed = "embed"
    /\ invocations = 2
    /\ Len(ProjectsWithPrompts(projects)) >= 2

\* C6: at most one clustering run is in flight at any time.
C6_SingleRunInFlight == inFlight <= 1

\* C7: for [[0,0],[0,0],[10,10],[10,10]] and k = 2 every outcome of the
\* random draws returns the two [0,0] points in one cluster and the two
\* [10,10] points in the other.
C7_Separation ==
    (Returned /\ data = SeparationData /\ k = 2
        /\ maxIterations = DefaultMaxIterations) =>
        /\ assignments[1] = assignments[2]
        /\ assignments[3] = assignments[4]
        /\ assignments[1] # assignments[3]

\* C8: kmeans terminates; it runs at most maxIterations iterations, stops
\* right after the first iteration that changed no assignment, and at the
\* iteration limit returns the current assignments and centroids normally.
C8_Termination ==
    /\ [](iter <= maxIterations)
    /\ [][(km_pc = "update" /\ ~changed) => km_pc' = "done"]_vars
    /\ [][(km_pc = "update" /\ changed /\ iter + 1 = maxIterations) =>
            (km_pc' = "done" /\ assignments' = assignments
                /\ Len(centroids') = k)]_vars
    /\ [](km_pc = "done" => (~changed \/ iter = maxIterations))
    /\ <>(km_pc = "done")

C8_Witness ==
    /\ Returned
    /\ changed
    /\ iter = maxIterations
    /\ iter >= 2

\* C9: on well-formed input kmeans never throws, also when all vectors are
\* identical or a cluster is left without members, and what it returns is a
\* fully populated assignments array of the input's length.
C9_NeverThrows ==
    /\ km_pc # "threw"
    /\ (Returned /\ WellFormedCall) =>
           DOMAIN assignments = 1..dataLength

C9_Witness ==
    /\ Returned /\ WellFormedCall
    /\ dataLength >= 2 /\ k >= 2
    /\ \A i \in 1..Len(data) : data[i] = data[1]
    /\ iter >= 1
    /\ EmptyClusters(assignments) # {}

\* C10: every emitted cluster has at least one project id, and a bucket
\* index without assignments gets no cluster and no naming call.
C10_NoEmptyCluster ==
    /\ clusters # Null =>
          \A c \in 1..Len(clusters[1]) : Len(clusters[1][c].projectIds) >= 1
    /\ run_pc = "awaitName" =>
          /\ \E i \in 1..Len(assignments) : assignments[i] = bucketI
          /\ calls.name <=
                Cardinality({ assignments[i] : i \in 1..Len(assignments) })
    /\ \A c \in 1..Len(newClusters) : Len(newClusters[c].projectIds) >= 1

C10_Witness ==
    /\ clusters # Null
    /\ Len(clusters[1]) = 1
    /\ Len(ProjectsWithPrompts(projects)) = 3
    /\ calls.name = 1

\* C11: the engine is called with k = min(number of eligible projects, 3),
\* and a successful run emits at least one and at most three clusters.
C11_ClusterCount ==
    /\ run_pc = "engine" =>
          k = Min(Len(ProjectsWithPrompts(projects)), 3)
    /\ clusters # Null => Len(clusters[1]) \in 1..3

\* K-Means assignment index of an emitted cluster, read off its first member.
BucketOfCluster(cluster) ==
    assignments[CHOOSE j \in 1..Len(promptsToEmbed) :
                    promptsToEmbed[j] = cluster.projectIds[1]]

AscendingBuckets(list) ==
    \A a, b \in 1..Len(list) :
        a < b => BucketOfCluster(list[a]) < BucketOfCluster(list[b])

\* C12: the cluster list is in ascending bucket-index order, both while it
\* is being built and when setClusters emits it.
C12_AscendingOrder ==
    /\ [](run_pc = "awaitName" => AscendingBuckets(newClusters))
    /\ [][(run_pc = "awaitName" /\ clusters' # Null) =>
             (\A a, b \in 1..Len(clusters'[1]) :
                 a < b => BucketOfCluster(clusters'[1][a])
                              < BucketOfCluster(clusters'[1][b]))]_vars

C12_Witness ==
    /\ clusters # Null
    /\ Len(clusters[1]) = 3
    /\ clusters[1][1].projectIds # clusters[1][3].projectIds

RunFailures == { "embed", "engine", "name" }

\* Buckets 0..upTo that have at least one member.
NonEmptyBucketsUpTo(upTo) ==
    { assignments[i] : i \in 1..Len(assignments) } \cap (0..upTo)

\* C13: a run calls embedContentBatch exactly once, kmeans once, and
\* generateClusterName once per non-empty bucket reached so far; after a
\* failed call no collaborator is called again by that run.
C13_NoRepeatedCall ==
    /\ [](calls.embed <= 1 /\ calls.kmeans <= 1)
    /\ [](run_pc # "idle" => calls.embed = 1)
    /\ [](run_pc = "awaitName" =>
            calls.name = Cardinality(NonEmptyBucketsUpTo(bucketI)))
    /\ [][(failed \in RunFailures /\ failed' = failed) => calls' = calls]_vars

C13_Witness ==
    /\ failed = "name"
    /\ calls = [embed |-> 1, kmeans |-> 1, name |-> 3]

\* C14: a run that passed the guard ends resolved: every failure is caught
\* and shown as clusteringError, the run's last step leaves isClustering
\* false with exactly one of a cluster list and an error, and a run in flight
\* always comes to that end.
C14_RunResolves ==
    /\ [](failed \in RunFailures =>
             (clusteringError # NoError /\ ~isClustering /\ run_pc = "idle"))
    /\ [](~(clusters # Null /\ clusteringError # NoError))
    /\ [][(run_pc # "idle" /\ run_pc' = "idle" /\ mounted') =>
             (/\ ~isClustering'
              /\ (clusters' # Null) # (clusteringError' # NoError))]_vars
    /\ (isClustering ~> ~isClustering)

C14_Witness ==
    /\ failed = "engine"
    /\ clusteringError = ReadingZeroMsg
    /\ clusters = Null
    /\ ~isClustering
    /\ mounted

\* C16: with a result on display (button labelled 'Reset View') a click on
\* the button sets clusters to null and starts no run: no collaborator and
\* no engine call, nothing in flight.
C16_ResetView ==
    [][(clusters # Null /\ invocations' = invocations + 1) =>
          (/\ clusters' = Null
           /\ ~isClustering'
           /\ run_pc' = "idle"
           /\ inFlight' = inFlight
           /\ calls'.embed = 0)]_vars

\* C17: a batch whose length differs from the number of texts sent never
\* leads to a cluster list, and the run that got it ends with an error.
C17_AtomicEmbedding ==
    (returned # -1 /\ returned # Len(ProjectsWithPrompts(projects))) =>
        /\ clusters = Null
        /\ run_pc = "idle" => clusteringError # NoError

IsDataRow(centroid) ==
    /\ centroid.c = 1
    /\ \E i \in 1..Len(data) : centroid.s = data[i]

\* C18: an update step that finds an empty cluster sets its centroid to an
\* input vector and, if iterations remain, is followed by another
\* assignment pass.
C18_ReseedAndContinue ==
    [][(km_pc = "update" /\ km_pc' # "threw" /\ WellFormedCall
           /\ EmptyClusters(assignments) # {}) =>
          (/\ \A ci \in EmptyClusters(assignments) :
                  IsDataRow(centroids'[ci + 1])
           /\ iter + 1 < maxIterations => km_pc' = "assign")]_vars

\* C19: called with k > n, kmeans returns exactly min(k, n) centroids and
\* no assignment at or above min(k, n).
C19_ClampedK ==
    (Returned /\ WellFormedCall /\ k > dataLength) =>
        /\ Len(centroids) = Min(k, dataLength)
        /\ \A i \in 1..Len(assignments) : assignments[i] < Min(k, dataLength)

\* C20: after every assignment step each row sits with a centroid that no
\* other centroid beats in squared distance, and every centroid of lower
\* index is strictly farther away.
C20_NearestLowestIndex ==
    (km_pc = "update" /\ WellFormedCall) =>
        \A i \in 1..dataLength :
            LET a == assignments[i] IN
            /\ a \in 0..(Len(centroids) - 1)
            /\ \A j \in 0..(Len(centroids) - 1) :
                  /\ ~DistanceLess(data[i], centroids[j + 1], centroids[a + 1])
                  /\ j < a =>
                        DistanceLess(data[i], centroids[a + 1], centroids[j + 1])

\* A tie between two centroids at the minimum, and a row that moved away
\* from cluster 0.
C20_Witness ==
    /\ km_pc = "update"
    /\ WellFormedCall
    /\ \E i \in 1..dataLength : assignments[i] > 0
    /\ \E i \in 1..dataLength :
          \E j \in 0..(Len(centroids) - 1) :
              /\ j > assignments[i]
              /\ ~DistanceLess(data[i], centroids[assignments[i] + 1],
                               centroids[j + 1])

\* The centroids are the rows at pairwise distinct indices, the indices
\* being exactly the ones recorded as used.
SampledWithoutReplacement(cs, used) ==
    \E f \in [1..Len(cs) -> used] :
        /\ \A a, b \in 1..Len(cs) : a # b => f[a] # f[b]
        /\ \A a \in 1..Len(cs) : cs[a] = RowAsCentroid(f[a])

\* C21: initializeCentroids never uses an input index twice, returns
\* exactly min(k, n) centroids taken from pairwise distinct indices, and
\* under fair draws it returns.
C21_InitWithoutReplacement ==
    /\ [](km_pc = "init" =>
            /\ usedIndices \subseteq 0..(dataLength - 1)
            /\ Len(centroids) = Cardinality(usedIndices)
            /\ Len(centroids) <= Min(k, dataLength)
            /\ SampledWithoutReplacement(centroids, usedIndices))
    /\ [][(km_pc = "init" /\ km_pc' # "init") =>
             (/\ Len(centroids') = Min(k, dataLength)
              /\ Cardinality(usedIndices') = Min(k, dataLength)
              /\ SampledWithoutReplacement(centroids', usedIndices'))]_vars
    /\ (km_pc = "init" ~> km_pc # "init")

C21_Witness ==
    /\ km_pc = "assign"
    /\ iter = 0
    /\ dataLength = 3
    /\ k = 2
    /\ usedIndices = {0, 2}
    /\ Len(centroids) = 2

\* The rows currently assigned to cluster ci, and the sum of their
\* component d.
Members(ci) == { i \in 1..Len(assignments) : assignments[i] = ci }

RECURSIVE SumOver(_, _)
SumOver(rows, d) ==
    IF rows = {} THEN 0
    ELSE LET i == CHOOSE x \in rows : TRUE
         IN  data[i][d] + SumOver(rows \ {i}, d)

\* C22: after every update step the centroid of each cluster with members
\* is the componentwise mean of exactly its members:
\* centroid[d] * memberCount = sum of the members' component d.
C22_CentroidIsMean ==
    [][(km_pc = "update" /\ km_pc' \in {"assign", "done"} /\ WellFormedCall) =>
          \A ci \in 0..(k - 1) :
              Members(ci) # {} =>
                  LET centroid == centroids'[ci + 1] IN
                  /\ centroid.c > 0
                  /\ Len(centroid.s) = Len(data[1])
                  /\ \A d \in 1..Len(data[1]) :
                        centroid.s[d] * Cardinality(Members(ci))
                            = centroid.c * SumOver(Members(ci), d)]_vars

C22_Witness ==
    /\ km_pc \in {"assign", "done"}
    /\ iter >= 1
    /\ \E j \in 1..Len(centroids) :
          centroids[j] = [s |-> <<1, 0>>, c |-> 2, nan |-> 0]
    /\ \E j \in 1..Len(centroids) :
          centroids[j] = [s |-> <<10, 10>>, c |-> 1, nan |-> 0]

Ragged == \E i, j \in 1..Len(data) : Len(data[i]) # Len(data[j])

\* C23: called with no vectors or with k < 1, kmeans fails with an error
\* and returns no result.
C23_RejectsMalformed ==
    (dataLength = 0 \/ k < 1) => km_pc # "done"

\* C23, as the code has it: with no vectors or k = 0 kmeans returns the
\* empty result at once and never throws; with vectors and k < 0 it throws
\* in the first update step, unless maxIterations = 0 lets it return
\* all-zero assignments and no centroids.
C23_EmptyResultOrThrow ==
    /\ (dataLength = 0 \/ k = 0) =>
          /\ km_pc \in {"call", "done"}
          /\ Returned => (assignments = << >> /\ centroids = << >>)
    /\ (dataLength >= 1 /\ k < 0) =>
          /\ km_pc \in {"call", "assign", "update", "threw", "done"}
          /\ centroids = << >>
          /\ km_pc = "done" <=> (km_pc # "call" /\ maxIterations = 0)
          /\ km_pc # "call" => assignments = ZeroAssignments(dataLength)
          /\ km_pc = "threw" => iter = 0

C23_Witness ==
    /\ km_pc = "threw"
    /\ k < 0
    /\ dataLength >= 2
    /\ ~Ragged

\* C24: called with vectors of different dimensionality, kmeans fails with
\* an error and returns no assignments.
C24_DimensionMismatch ==
    (Ragged /\ k >= 1) => km_pc # "done"

\* A project with at least one non-empty prompt field, video included.
AnyPromptField(p) ==
    \/ p.prompts.text # ""
    \/ p.prompts.image # ""
    \/ p.prompts.tts # ""
    \/ p.prompts.video # ""

\* C25: the projects handed to embedContentBatch are exactly the projects
\* with at least one non-empty prompt field (text, image, tts or video), in
\* their original order.
C25_FilterKeepsAnyPrompt ==
    run_pc = "awaitEmbed" =>
        LET eligible == SelectSeq(projects, AnyPromptField)
        IN  promptsToEmbed = [i \in 1..Len(eligible) |-> eligible[i].id]

EmptyHistory(present) ==
    [past |-> << >>, present |-> present, future |-> << >>]

\* C26: setState(v) with v different from the present appends the old
\* present to past, makes v the present and empties future; with v equal to
\* the present it changes nothing; resetState(v) leaves only v.
C26_PushOnChange ==
    [][/\ lastCall'.op = "setState" =>
             IF lastCall'.arg = history.present
             THEN history' = history
             ELSE /\ history'.past = Append(history.past, history.present)
                  /\ history'.present = lastCall'.arg
                  /\ history'.future = << >>
       /\ lastCall'.op = "resetState" =>
             history' = EmptyHistory(lastCall'.arg)]_vars

C26_Witness ==
    /\ lastCall = [op |-> "setState", arg |-> "b"]
    /\ history = [past |-> << "a", "b", "a" >>, present |-> "b",
                  future |-> << >>]

\* past, present and future in one sequence.
Timeline(h) == h.past \o << h.present >> \o h.future

\* C29: undo and redo leave past + [present] + future as it is, also when
\* called twice between two renders, and present is always a value that
\* was given to the hook.
C29_HistoryConserved ==
    /\ [](history.present \in Values)
    /\ [][lastCall'.op \in {"undo", "redo"} =>
             Timeline(history') = Timeline(history)]_vars

\* C27: when kmeans returns after an iteration that changed no assignment,
\* every vector is assigned to the nearest of the returned centroids, the
\* lowest index on ties.
C27_ConvergedConsistent ==
    (Returned /\ WellFormedCall /\ ~changed /\ iter >= 1) =>
        \A i \in 1..dataLength :
            assignments[i] = ClosestCentroid(data[i], centroids, 0, -1)

\* C28: naming calls go out one at a time in ascending bucket index: a
\* call is issued only when every earlier call of the run has returned and
\* its cluster is pushed, for a bucket above the one named before; once a
\* naming call has failed no further one is issued and nothing is emitted.
C28_SequentialNaming ==
    /\ [](run_pc = "awaitName" => calls.name = Len(newClusters) + 1)
    /\ [][calls'.name > calls.name =>
             (/\ calls'.name = calls.name + 1
              /\ Len(newClusters') = calls.name
              /\ run_pc = "awaitName" => bucketI' > bucketI
              /\ \A i \in 1..Len(assignments) :
                    assignments[i] < bucketI' =>
                        \E c \in 1..Len(newClusters') :
                            \E m \in 1..Len(newClusters'[c].projectIds) :
                                newClusters'[c].projectIds[m]
                                    = promptsToEmbed[i])]_vars
    /\ [][(run_pc = "awaitName" /\ failed' = "name") =>
             (/\ calls' = calls
              /\ clusters' = Null
              /\ newClusters' = << >>
              /\ run_pc' = "idle")]_vars
    /\ [](failed = "name" => (clusters = Null /\ run_pc = "idle"))

C28_Witness ==
    /\ failed = "name"
    /\ calls.name = 2
    /\ clusters = Null
    /\ clusteringError = NameFailedMsg
    /\ Len(projects) = 3

\* C30: in the Chat, after any interleaving of send, reply arrival, reply
\* failure, save-to-project and project change, chatHistory alternates user
\* and model messages starting with a user message.
C30_WellFormedConversation ==
    \A i \in 1..Len(chatHistory) :
        chatHistory[i].role = IF i % 2 = 1 THEN "user" ELSE "model"

====
